---- MODULE Spec2Model ----
(***************************************************************************)
(* pycent: the legacy blocking client (cent/core.py), the typed facade     *)
(* (cent/client/client.py) and the aiohttp transport session               *)
(* (cent/client/session/aiohttp.py, base_async.py), with the method        *)
(* descriptors' serialisation (cent/methods, cent/types).                  *)
(***************************************************************************)
EXTENDS Integers, Sequences, FiniteSets, TLC

VARIABLES
    mode,            \* "sync": cent/core.py Client; "async": facade + AiohttpSession; "dump": serialisation
    api_key,         \* Client.api_key of every client ("unset" before __init__)
    client_session,  \* core.py Client.session: the httpx session a legacy client holds
    headers,         \* the Authorization header of every httpx session
    _session,        \* AiohttpSession._session: the current ClientSession, or NoSession
    cs,              \* every aiohttp ClientSession object: "absent", "open" or "closed"
    cs_headers,      \* the X-API-Key header of every ClientSession
    created,         \* how many ClientSession objects were constructed
    pc,              \* where every task's coroutine is suspended
    frame,           \* the locals of a suspended coroutine
    wire,            \* the HTTP request a task has in flight
    last,            \* the call that completed last: the server's response and what the caller got
    method,          \* the method descriptor given to model_dump
    json_data        \* make_request's json_data

vars == <<mode, api_key, client_session, headers, _session, cs, cs_headers,
          created, pc, frame, wire, last, method, json_data>>

----------------------------------------------------------------------------
(* Bounds of the model *)

\* how many ClientSession objects one AiohttpSession may construct in a run
MaxClientSessions == 2
\* how many optional fields of one model a generated descriptor sets
MaxSetFields == 2

Tasks == {"t1", "t2"}
Clients == {"c1", "c2"}
ApiKeys == {"ka", "kb"}
HttpxSessions == {"s1", "s2"}
NoKey == "unset"

----------------------------------------------------------------------------
(* Python values: None, a scalar, a mapping/model *)

None == [t |-> "none"]
Val(v) == [t |-> "val", v |-> v]
Obj(m) == [t |-> "obj", m |-> m]
EmptyMap == [k \in {} |-> None]

----------------------------------------------------------------------------
(* The server's answers *)

Err1 == Obj([code |-> Val("1"), message |-> Val("m")])

Results ==
    { Obj(EmptyMap),
      Obj([presence |-> Val("p")]),
      Obj([num_clients |-> Val("3"), num_users |-> Val("2"), extra |-> Val("x")]),
      Obj([channels |-> Val("chs")]),
      Obj([publications |-> Val("pubs"), offset |-> Val("7"), epoch |-> Val("e")]) }

\* a response body: not JSON at all, or an envelope with any of the two keys
Envelopes(results) ==
    { [valid |-> TRUE, keys |-> {}, error |-> None, result |-> None],
      [valid |-> TRUE, keys |-> {"error"}, error |-> Err1, result |-> None] }
    \cup { [valid |-> TRUE, keys |-> {"result"}, error |-> None, result |-> r] : r \in results }
    \cup { [valid |-> TRUE, keys |-> {"error", "result"}, error |-> Err1, result |-> r] : r \in results }

Malformed == [valid |-> FALSE, keys |-> {}, error |-> None, result |-> None]

Bodies(results) == {Malformed} \cup Envelopes(results)

\* net = "timeout": the request timeout elapsed before the response arrived
Responses(results) ==
    { [net |-> "timeout", status |-> 0, body |-> Malformed] }
    \cup { [net |-> "ok", status |-> s, body |-> b] : s \in {200, 500}, b \in Bodies(results) }

NoResponse == [net |-> "none", status |-> 0, body |-> Malformed]

----------------------------------------------------------------------------
(* What a call gives its caller *)

Return(v, dec) == [kind |-> "return", exc |-> "", value |-> v, error |-> None, decoded |-> dec]
Raise(e, err, dec) == [kind |-> "raise", exc |-> e, value |-> None, error |-> err, decoded |-> dec]
NoOutcome == [kind |-> "none", exc |-> "", value |-> None, error |-> None, decoded |-> FALSE]

NoRequest == [client |-> "none", auth |-> <<>>, method |-> "", supplied |-> 0, timeout |-> 0, via |-> 0]
NoCall == [who |-> "none", op |-> "", requests |-> <<>>, resp |-> NoResponse, out |-> NoOutcome,
           target |-> 0]

----------------------------------------------------------------------------
(* cent/core.py: the legacy blocking client *)

LegacyDefaultTimeout == 1

LegacyOps == {"publish", "broadcast", "subscribe", "unsubscribe", "disconnect",
              "presence", "presence_stats", "history", "history_remove",
              "channels", "info"}

\* send without the status check
send_no_status_check(c, meth, resp, caught) ==
    LET request == [client |-> c, auth |-> headers[client_session[c]], method |-> meth,
                    supplied |-> LegacyDefaultTimeout, timeout |-> LegacyDefaultTimeout, via |-> 0]
    IN  IF resp.net = "timeout"
        THEN [requests |-> <<request>>, raised |-> TRUE,
              exc |-> IF caught THEN "RequestException" ELSE "httpx.TimeoutException"]
        ELSE [requests |-> <<request>>, raised |-> FALSE, exc |-> ""]

\* Client.send: one POST through self.session; the auth header is the session's
send(c, meth, resp, caught) ==
    LET request == [client |-> c, auth |-> headers[client_session[c]], method |-> meth,
                    supplied |-> LegacyDefaultTimeout, timeout |-> LegacyDefaultTimeout, via |-> 0]
    IN  IF resp.net = "timeout"
        THEN \* `except RequestException` catches only cent's own exception class
             [requests |-> <<request>>, raised |-> TRUE,
              exc |-> IF caught THEN "RequestException" ELSE "httpx.TimeoutException"]
        ELSE IF resp.status # 200
        THEN [requests |-> <<request>>, raised |-> TRUE, exc |-> "RequestException"]
        ELSE [requests |-> <<request>>, raised |-> FALSE, exc |-> ""]

\* _send_one looking at "error" only when the envelope has no "result"
_send_one_result_first(c, meth, resp, caught) ==
    LET r == send(c, meth, resp, caught)
    IN  IF r.raised
        THEN [requests |-> r.requests, out |-> Raise(r.exc, None, FALSE)]
        ELSE IF ~resp.body.valid
        THEN [requests |-> r.requests, out |-> Raise("JSONDecodeError", None, TRUE)]
        ELSE IF "result" \in resp.body.keys
        THEN [requests |-> r.requests, out |-> Return(resp.body.result, TRUE)]
        ELSE IF "error" \in resp.body.keys
        THEN [requests |-> r.requests, out |-> Raise("ResponseError", resp.body.error, TRUE)]
        ELSE [requests |-> r.requests, out |-> Return(Obj(EmptyMap), TRUE)]

\* Client._send_one
_send_one(c, meth, resp, caught) ==
    LET r == send(c, meth, resp, caught)
    IN  IF r.raised
        THEN [requests |-> r.requests, out |-> Raise(r.exc, None, FALSE)]
        ELSE IF ~resp.body.valid
        THEN [requests |-> r.requests, out |-> Raise("JSONDecodeError", None, TRUE)]
        ELSE IF "error" \in resp.body.keys
        THEN [requests |-> r.requests, out |-> Raise("ResponseError", resp.body.error, TRUE)]
        ELSE [requests |-> r.requests,
              out |-> Return(IF "result" \in resp.body.keys THEN resp.body.result
                             ELSE Obj(EmptyMap), TRUE)]

\* result[key]
Subscript(res, key) ==
    IF res.out.kind # "return" THEN res
    ELSE IF key \in DOMAIN res.out.value.m
    THEN [res EXCEPT !.out = Return(res.out.value.m[key], TRUE)]
    ELSE [res EXCEPT !.out = Raise("KeyError", None, TRUE)]

\* result.get(key, default)
Get(value, key, default) == IF key \in DOMAIN value.m THEN value.m[key] ELSE default

\* a method that discards the result and returns None
Discard(res) ==
    IF res.out.kind # "return" THEN res ELSE [res EXCEPT !.out = Return(None, TRUE)]

publish(c, resp, caught) == _send_one(c, "publish", resp, caught)

broadcast(c, resp, caught) == _send_one(c, "broadcast", resp, caught)

subscribe(c, resp, caught) == Discard(_send_one(c, "subscribe", resp, caught))

unsubscribe(c, resp, caught) == Discard(_send_one(c, "unsubscribe", resp, caught))

disconnect(c, resp, caught) == Discard(_send_one(c, "disconnect", resp, caught))

presence(c, resp, caught) == Subscript(_send_one(c, "presence", resp, caught), "presence")

presence_stats(c, resp, caught) ==
    LET res == _send_one(c, "presence_stats", resp, caught)
    IN  IF res.out.kind # "return" THEN res
        ELSE IF {"num_clients", "num_users"} \subseteq DOMAIN res.out.value.m
        THEN [res EXCEPT !.out = Return(Obj([num_clients |-> res.out.value.m["num_clients"],
                                             num_users |-> res.out.value.m["num_users"]]), TRUE)]
        ELSE [res EXCEPT !.out = Raise("KeyError", None, TRUE)]

history(c, resp, caught) ==
    LET res == _send_one(c, "history", resp, caught)
    IN  IF res.out.kind # "return" THEN res
        ELSE [res EXCEPT !.out =
                Return(Obj([publications |-> Get(res.out.value, "publications", Val("[]")),
                            offset |-> Get(res.out.value, "offset", Val("0")),
                            epoch |-> Get(res.out.value, "epoch", Val(""))]), TRUE)]

history_remove(c, resp, caught) == Discard(_send_one(c, "history_remove", resp, caught))

\* channels posting by itself and reading the body, past _send_one
channels_bypass(c, resp, caught) ==
    LET request == [client |-> c, auth |-> headers[client_session[c]], method |-> "channels",
                    supplied |-> LegacyDefaultTimeout, timeout |-> LegacyDefaultTimeout, via |-> 0]
    IN  IF resp.net = "timeout"
        THEN [requests |-> <<request>>, out |-> Raise("httpx.TimeoutException", None, FALSE)]
        ELSE IF ~resp.body.valid
        THEN [requests |-> <<request>>, out |-> Raise("JSONDecodeError", None, TRUE)]
        ELSE IF "result" \in resp.body.keys /\ "channels" \in DOMAIN resp.body.result.m
        THEN [requests |-> <<request>>, out |-> Return(resp.body.result.m["channels"], TRUE)]
        ELSE [requests |-> <<request>>, out |-> Raise("KeyError", None, TRUE)]

channels(c, resp, caught) == Subscript(_send_one(c, "channels", resp, caught), "channels")

info(c, resp, caught) == _send_one(c, "info", resp, caught)

\* the typed method `op` of the legacy client
LegacyMethod(op, c, resp, caught) ==
    CASE op = "publish" -> publish(c, resp, caught)
      [] op = "broadcast" -> broadcast(c, resp, caught)
      [] op = "subscribe" -> subscribe(c, resp, caught)
      [] op = "unsubscribe" -> unsubscribe(c, resp, caught)
      [] op = "disconnect" -> disconnect(c, resp, caught)
      [] op = "presence" -> presence(c, resp, caught)
      [] op = "presence_stats" -> presence_stats(c, resp, caught)
      [] op = "history" -> history(c, resp, caught)
      [] op = "history_remove" -> history_remove(c, resp, caught)
      [] op = "channels" -> channels(c, resp, caught)
      [] OTHER -> info(c, resp, caught)

\* Client.__init__ with _prepare_session: the header is written onto the session
LegacyInit(c, key, s) ==
    /\ mode = "sync"
    /\ last = NoCall
    /\ client_session[c] = "none"
    /\ api_key' = [api_key EXCEPT ![c] = key]
    /\ client_session' = [client_session EXCEPT ![c] = s]
    /\ headers' = [headers EXCEPT ![s] = <<"apikey", key>>]
    /\ UNCHANGED <<mode, _session, cs, cs_headers, created, pc, frame, wire, last,
                   method, json_data>>

\* one blocking call of a typed method, with the server's answer
LegacyCall(c, op, resp, caught) ==
    /\ mode = "sync"
    /\ client_session[c] # "none"
    /\ last = NoCall
    /\ caught => resp.net = "timeout"
    /\ LET res == LegacyMethod(op, c, resp, caught)
       IN  last' = [who |-> c, op |-> op, requests |-> res.requests, resp |-> resp,
                    out |-> res.out, target |-> 0]
    /\ UNCHANGED <<mode, api_key, client_session, headers, _session, cs, cs_headers,
                   created, pc, frame, wire, method, json_data>>

\* the caller drops the result of the call that completed (results live for one call);
\* `last` shows one completed call at a time, so every other step waits for this one
Discarded ==
    /\ last # NoCall
    /\ last' = NoCall
    /\ UNCHANGED <<mode, api_key, client_session, headers, _session, cs, cs_headers,
                   created, pc, frame, wire, method, json_data>>

----------------------------------------------------------------------------
(* cent/methods, cent/types: method descriptors and their serialisation *)

\* a descriptor: its __api_method__ and its fields
Descriptor(api, fields) == [api_method |-> api, fields |-> Obj(fields)]
ValidationError == [api_method |-> "ValidationError", fields |-> None]
NoMethod == [api_method |-> "", fields |-> None]

\* the functions over `names` that set at most MaxSetFields of them
Optionals(names, values) ==
    { m \in [names -> values \cup {None}] :
        Cardinality({f \in names : m[f] # None}) <= MaxSetFields }

\* BoolValue(value=b)
BoolValue(b) == Obj([value |-> Val(b)])

\* ChannelOptionsOverride(...): five optional BoolValue fields
ChannelOptionsOverride ==
    { Obj(m) : m \in Optionals({"presence", "join_leave", "force_push_join_leave",
                                "force_positioning", "force_recovery"},
                               {BoolValue("False"), BoolValue("True")}) }

\* StreamPosition(offset, epoch)
StreamPosition ==
    { Obj([offset |-> Val(o), epoch |-> Val(e)]) : o \in {"0", "1"}, e \in {"", "1"} }

\* SubscribeMethod(user, channel, ...): two required fields, eight optional ones
SubscribeMethod ==
    { Descriptor("subscribe",
                 [user |-> Val("user"), channel |-> Val("personal:1"),
                  recover_since |-> rs, override |-> ov] @@ m) :
        m \in Optionals({"info", "b64info", "client", "session", "data", "b64data"},
                        {Val(""), Val("x")}),
        rs \in StreamPosition \cup {None},
        ov \in ChannelOptionsOverride \cup {None} }

\* ChannelsMethod(pattern)
ChannelsMethod ==
    { Descriptor("channels", [pattern |-> p]) : p \in {None, Val(""), Val("*")} }

\* PublishMethod(...): pydantic rejects a required field that is None
PublishMethod(channel, data, skip_history, tags, b64data, idempotency_key) ==
    IF channel = None \/ data = None
    THEN ValidationError
    ELSE Descriptor("publish",
                    [channel |-> channel, data |-> data, skip_history |-> skip_history,
                     tags |-> tags, b64data |-> b64data,
                     idempotency_key |-> idempotency_key])

\* BroadcastMethod(...)
BroadcastMethod(chans, data, skip_history, tags, b64data, idempotency_key) ==
    IF chans = None \/ data = None
    THEN ValidationError
    ELSE Descriptor("broadcast",
                    [channels |-> chans, data |-> data, skip_history |-> skip_history,
                     tags |-> tags, b64data |-> b64data,
                     idempotency_key |-> idempotency_key])

\* Python truthiness of a scalar string, None or a mapping
Truthy(x) ==
    CASE x.t = "none" -> FALSE
      [] x.t = "val" -> x.v \notin {"", "0", "False"}
      [] OTHER -> DOMAIN x.m # {}

\* a dump that leaves out every falsy value, not only None
RECURSIVE model_dump_truthy(_)
model_dump_truthy(x) ==
    IF x.t = "obj"
    THEN Obj([f \in {g \in DOMAIN x.m : Truthy(x.m[g])} |-> model_dump_truthy(x.m[f])])
    ELSE x

\* method.model_dump(exclude_none=True): None-valued fields are left out, at every depth
RECURSIVE model_dump(_)
model_dump(x) ==
    IF x.t = "obj"
    THEN Obj([f \in {g \in DOMAIN x.m : x.m[g] # None} |-> model_dump(x.m[f])])
    ELSE x

----------------------------------------------------------------------------
(* cent/client/session: the aiohttp transport session *)

NoSession == 0
\* Optional[float] = None
NoTimeout == -1
DEFAULT_TIMEOUT == 60
\* BaseSession._timeout
_timeout == DEFAULT_TIMEOUT

Timeouts == {NoTimeout, 0, 5}

\* Python's `a or b` on an Optional[float]
PyOr(a, b) == IF a # NoTimeout /\ a # 0 THEN a ELSE b

AsyncResults == { Obj([offset |-> Val("7"), epoch |-> Val("e")]) }

\* _create_session constructing a ClientSession on every call
_create_session_always ==
    [session |-> created + 1, created |-> created + 1,
     cs |-> [i \in DOMAIN cs |-> IF i = created + 1 THEN "open" ELSE cs[i]]]

\* AiohttpSession._create_session: the ClientSession to use, constructed when needed
_create_session ==
    IF _session = NoSession \/ cs[_session] = "closed"
    THEN [session |-> created + 1, created |-> created + 1,
          cs |-> [i \in DOMAIN cs |-> IF i = created + 1 THEN "open" ELSE cs[i]]]
    ELSE [session |-> _session, created |-> created, cs |-> cs]

\* BaseSession.check_response: the status, then the envelope
check_response(status_code, content) ==
    IF status_code # 200 THEN Raise("CentTransportError", None, FALSE)
    ELSE IF ~content.valid THEN Raise("CentTransportError", None, TRUE)
    ELSE IF "error" \in content.keys THEN Raise("CentAPIError", content.error, TRUE)
    ELSE Return(IF "result" \in content.keys THEN content.result ELSE None, TRUE)

\* AiohttpSession.make_request up to the await of session.post: no suspension in between
make_request(t, c, m, timeout) ==
    LET cr == _create_session
    IN  /\ cr.created <= MaxClientSessions
        /\ _session' = cr.session
        /\ created' = cr.created
        /\ cs' = cr.cs
        /\ cs_headers' = [cs_headers EXCEPT ![cr.session] = api_key[c]]
        /\ wire' = [wire EXCEPT ![t] =
                      [client |-> c, auth |-> <<"X-API-Key", cs_headers'[cr.session]>>,
                       method |-> m.api_method, supplied |-> timeout,
                       timeout |-> PyOr(timeout, _timeout), via |-> cr.session]]
        /\ frame' = [frame EXCEPT ![t] = cr.session]
        /\ pc' = [pc EXCEPT ![t] = "posting"]
        /\ UNCHANGED <<mode, api_key, client_session, headers, last, method, json_data>>

\* the rest of make_request: the response arrives, or the timeout elapses first
Respond(t, resp) ==
    /\ mode = "async"
    /\ pc[t] = "posting"
    /\ last = NoCall
    /\ last' = [who |-> t, op |-> wire[t].method, requests |-> <<wire[t]>>, resp |-> resp,
                out |-> IF resp.net = "timeout"
                        THEN Raise("asyncio.TimeoutError", None, FALSE)
                        ELSE check_response(resp.status, resp.body),
                target |-> 0]
    /\ pc' = [pc EXCEPT ![t] = "idle"]
    /\ wire' = [wire EXCEPT ![t] = NoRequest]
    /\ frame' = [frame EXCEPT ![t] = 0]
    /\ UNCHANGED <<mode, api_key, client_session, headers, _session, cs, cs_headers,
                   created, method, json_data>>

\* close that suspends without closing the ClientSession
close_without_closing(t) ==
    /\ mode = "async"
    /\ pc[t] = "idle"
    /\ last = NoCall
    /\ IF _session # NoSession /\ cs[_session] # "closed"
       THEN /\ frame' = [frame EXCEPT ![t] = _session]
            /\ pc' = [pc EXCEPT ![t] = "closing"]
            /\ UNCHANGED <<last, cs>>
       ELSE /\ last' = [NoCall EXCEPT !.who = t, !.op = "close", !.out = Return(None, FALSE),
                                      !.target = _session]
            /\ UNCHANGED <<cs, frame, pc>>
    /\ UNCHANGED <<mode, api_key, client_session, headers, _session, cs_headers, created,
                   wire, method, json_data>>

\* AiohttpSession.close up to its first suspension; it returns at once when there is
\* nothing to close
close(t) ==
    /\ mode = "async"
    /\ pc[t] = "idle"
    /\ last = NoCall
    /\ IF _session # NoSession /\ cs[_session] # "closed"
       THEN /\ cs' = [cs EXCEPT ![_session] = "closed"]
            /\ frame' = [frame EXCEPT ![t] = _session]
            /\ pc' = [pc EXCEPT ![t] = "closing"]
            /\ UNCHANGED last
       ELSE /\ last' = [NoCall EXCEPT !.who = t, !.op = "close", !.out = Return(None, FALSE),
                                      !.target = _session]
            /\ UNCHANGED <<cs, frame, pc>>
    /\ UNCHANGED <<mode, api_key, client_session, headers, _session, cs_headers, created,
                   wire, method, json_data>>

\* close resumes after `await asyncio.sleep(0)` and returns
CloseReturn(t) ==
    /\ mode = "async"
    /\ pc[t] = "closing"
    /\ last = NoCall
    /\ last' = [NoCall EXCEPT !.who = t, !.op = "close", !.out = Return(None, FALSE),
                              !.target = frame[t]]
    /\ pc' = [pc EXCEPT ![t] = "idle"]
    /\ frame' = [frame EXCEPT ![t] = 0]
    /\ UNCHANGED <<mode, api_key, client_session, headers, _session, cs, cs_headers,
                   created, wire, method, json_data>>

\* BaseAsyncSession.__aexit__: leaving `async with session:` closes it
aexit(t) == close(t)

\* BaseAsyncSession.__call__
BaseAsyncSession_call(t, c, m, timeout) == make_request(t, c, m, timeout)

----------------------------------------------------------------------------
(* cent/client/client.py: the typed facade *)

\* Client.__call__
Client_call(t, c, m, request_timeout) == BaseAsyncSession_call(t, c, m, request_timeout)

\* a typed method that calls the session before it looks at the descriptor
Typed_send_first(t, c, op, call, request_timeout) ==
    /\ mode = "async"
    /\ pc[t] = "idle"
    /\ last = NoCall
    /\ IF call = ValidationError
       THEN LET cr == _create_session
            IN  /\ cr.created <= MaxClientSessions
                /\ _session' = cr.session
                /\ created' = cr.created
                /\ cs' = cr.cs
                /\ cs_headers' = [cs_headers EXCEPT ![cr.session] = api_key[c]]
                /\ last' = [NoCall EXCEPT !.who = t, !.op = op,
                                          !.out = Raise("ValidationError", None, FALSE)]
                /\ UNCHANGED <<mode, api_key, client_session, headers, pc, frame, wire,
                               method, json_data>>
       ELSE Client_call(t, c, call, request_timeout)

\* a typed method whose descriptor was built as `call`
Typed(t, c, op, call, request_timeout) ==
    /\ mode = "async"
    /\ pc[t] = "idle"
    /\ last = NoCall
    /\ IF call = ValidationError
       THEN /\ last' = [NoCall EXCEPT !.who = t, !.op = op,
                                      !.out = Raise("ValidationError", None, FALSE)]
            /\ UNCHANGED <<mode, api_key, client_session, headers, _session, cs,
                           cs_headers, created, pc, frame, wire, method, json_data>>
       ELSE Client_call(t, c, call, request_timeout)

\* Client.publish
Client_publish(t, c, channel, data, skip_history, tags, b64data, idempotency_key, request_timeout) ==
    Typed(t, c, "publish",
          PublishMethod(channel, data, skip_history, tags, b64data, idempotency_key),
          request_timeout)

\* Client.broadcast
Client_broadcast(t, c, chans, data, skip_history, tags, b64data, idempotency_key, request_timeout) ==
    Typed(t, c, "broadcast",
          BroadcastMethod(chans, data, skip_history, tags, b64data, idempotency_key),
          request_timeout)

\* client(method, request_timeout) with a descriptor the caller built
Invoke(t, c, m, request_timeout) ==
    /\ mode = "async"
    /\ pc[t] = "idle"
    /\ last = NoCall
    /\ Client_call(t, c, m, request_timeout)

----------------------------------------------------------------------------
(* make_request's line `json_data = method.model_dump(exclude_none=True)` alone *)

Unset == [t |-> "unset"]

Dump ==
    /\ mode = "dump"
    /\ json_data = Unset
    /\ json_data' = model_dump(method.fields)
    /\ UNCHANGED <<mode, api_key, client_session, headers, _session, cs, cs_headers,
                   created, pc, frame, wire, last, method>>

\* the descriptors Client.publish builds from valid required arguments
PublishMethods ==
    { PublishMethod(Val("personal:1"), Obj([data |-> Val("data")]), sh, tg, b64, ik) :
        sh \in {None, Val("False"), Val("True")},
        tg \in {None, Obj([tag |-> Val("tag")])},
        b64 \in {None, Val(""), Val("ZGF0YQ==")},
        ik \in {None, Val("idempotency_key")} }

Descriptors == SubscribeMethod \cup ChannelsMethod \cup PublishMethods

----------------------------------------------------------------------------

InitCommon ==
    /\ client_session = [c \in Clients |-> "none"]
    /\ headers = [s \in HttpxSessions |-> <<>>]
    /\ _session = NoSession
    /\ cs = [i \in 1..MaxClientSessions |-> "absent"]
    /\ cs_headers = [i \in 1..MaxClientSessions |-> NoKey]
    /\ created = 0
    /\ pc = [t \in Tasks |-> "idle"]
    /\ frame = [t \in Tasks |-> 0]
    /\ wire = [t \in Tasks |-> NoRequest]
    /\ last = NoCall

\* no legacy client constructed yet
InitSync ==
    /\ mode = "sync"
    /\ api_key = [c \in Clients |-> NoKey]
    /\ method = NoMethod
    /\ json_data = Unset
    /\ InitCommon

\* two facade clients, with different api keys, over one AiohttpSession not yet used
InitAsync ==
    /\ mode = "async"
    /\ api_key = [c \in Clients |-> IF c = "c1" THEN "ka" ELSE "kb"]
    /\ method = NoMethod
    /\ json_data = Unset
    /\ InitCommon

\* a descriptor about to be serialised
InitDump ==
    /\ mode = "dump"
    /\ api_key = [c \in Clients |-> NoKey]
    /\ method \in Descriptors
    /\ json_data = Unset
    /\ InitCommon

Init == InitSync \/ InitAsync

NextSync ==
    \/ \E c \in Clients, key \in ApiKeys, s \in HttpxSessions : LegacyInit(c, key, s)
    \/ \E c \in Clients, op \in LegacyOps, resp \in Responses(Results), caught \in BOOLEAN :
          LegacyCall(c, op, resp, caught)

NextAsync ==
    \/ \E t \in Tasks, c \in Clients, channel \in {None, Val("personal:1")},
          skip_history \in {None, Val("False")}, request_timeout \in Timeouts :
          Client_publish(t, c, channel, Obj([data |-> Val("data")]), skip_history,
                         None, None, None, request_timeout)
    \/ \E t \in Tasks, c \in Clients, data \in {None, Obj([data |-> Val("data")])},
          request_timeout \in Timeouts :
          Client_broadcast(t, c, Val("personal:1,personal:2"), data, None,
                           None, None, None, request_timeout)
    \/ \E t \in Tasks, c \in Clients, m \in ChannelsMethod, request_timeout \in Timeouts :
          Invoke(t, c, m, request_timeout)
    \/ \E t \in Tasks, resp \in Responses(AsyncResults) : Respond(t, resp)
    \/ \E t \in Tasks : close(t)
    \/ \E t \in Tasks : aexit(t)
    \/ \E t \in Tasks : CloseReturn(t)

Next == NextSync \/ NextAsync \/ Discarded

Spec == Init /\ [][Next]_vars

SpecDump == InitDump /\ [][Dump]_vars

----------------------------------------------------------------------------
(* The exceptions of the error taxonomy *)

TransportErrors == {"RequestException", "CentTransportError"}
ApiErrors == {"ResponseError", "CentAPIError"}
LibraryTimeoutErrors == {"CentTimeoutError"}

\* the call that completed last got an HTTP response
Answered == last.resp.net = "ok"

\* the ClientSession objects that are open
Open == {i \in 1..MaxClientSessions : cs[i] = "open"}

----------------------------------------------------------------------------
(* Claims *)

\* C1: an HTTP 200 answer whose envelope has "error" raises the API error carrying the
\* server's error and returns nothing, also when the envelope has a "result" too.
C1_ErrorEnvelopeRaises ==
    (Answered /\ last.resp.status = 200 /\ last.resp.body.valid
        /\ "error" \in last.resp.body.keys)
    => /\ last.out.kind = "raise"
       /\ last.out.exc \in ApiErrors
       /\ last.out.error = last.resp.body.error

\* a legacy call answered 200 with both "error" and "result" raised ResponseError
C1_Witness ==
    /\ mode = "sync"
    /\ Answered /\ last.resp.status = 200
    /\ last.resp.body.keys = {"error", "result"}
    /\ last.out.exc = "ResponseError"

\* C2: a status other than 200 raises the transport error before the body is decoded,
\* and returns nothing whatever the body holds.
C2_NonOkStatusRaises ==
    (Answered /\ last.resp.status # 200)
    => /\ last.out.kind = "raise"
       /\ last.out.exc \in TransportErrors
       /\ ~last.out.decoded

\* a legacy call answered 500 with a well-formed {"result": ...} body raised
C2_Witness ==
    /\ mode = "sync"
    /\ Answered /\ last.resp.status = 500
    /\ last.resp.body.valid /\ last.resp.body.keys = {"result"}
    /\ last.out.exc = "RequestException"

\* C3: every typed method sends exactly one request, its own, and gives the caller a
\* server value only when the status check and the error-envelope check both passed.
C3_TypedThroughInvoke ==
    (last.resp.net # "none")
    => /\ Len(last.requests) = 1
       /\ last.requests[1].method = last.op
       /\ (Answered /\ last.resp.status # 200
             => last.out.kind = "raise" /\ last.out.exc \in TransportErrors)
       /\ (Answered /\ last.resp.status = 200 /\ last.resp.body.valid
             /\ "error" \in last.resp.body.keys
             => last.out.kind = "raise" /\ last.out.exc \in ApiErrors)
       /\ (last.out.kind = "return"
             => /\ Answered /\ last.resp.status = 200 /\ last.resp.body.valid
                /\ "error" \notin last.resp.body.keys)

\* legacy channels() returned the server's channels
C3_Witness ==
    /\ mode = "sync"
    /\ last.op = "channels"
    /\ last.out.kind = "return"
    /\ last.out.value = Val("chs")

\* the serialised `out` has exactly the fields of `src` that are not None, with their
\* values, at every depth
RECURSIVE OmitsOnlyNone(_, _)
OmitsOnlyNone(src, out) ==
    IF src.t = "obj"
    THEN /\ out.t = "obj"
         /\ \A f \in DOMAIN src.m : (f \in DOMAIN out.m) <=> (src.m[f].t # "none")
         /\ \A f \in DOMAIN out.m : f \in DOMAIN src.m /\ OmitsOnlyNone(src.m[f], out.m[f])
    ELSE out = src

\* C4: the JSON body has a key for an optional field exactly when the field is not None
\* (False and other falsy values stay), in nested objects too.
C4_OmitsExactlyUnset ==
    json_data # Unset => OmitsOnlyNone(method.fields, json_data)

\* a subscribe whose override sets presence to BoolValue(False) and leaves join_leave unset
C4_Witness ==
    /\ json_data # Unset
    /\ method.api_method = "subscribe"
    /\ method.fields.m.override # None
    /\ method.fields.m.override.m.presence = BoolValue("False")
    /\ method.fields.m.info = Val("")
    /\ "join_leave" \notin DOMAIN json_data.m.override.m
    /\ json_data.m.override.m.presence.m.value = Val("False")
    /\ json_data.m.info = Val("")
    /\ "client" \notin DOMAIN json_data.m

\* C5: every HTTP request carries the api_key of the client that issued the call.
C5_AuthIsCallersKey ==
    /\ \A i \in 1..Len(last.requests) :
          last.requests[i].auth[2] = api_key[last.requests[i].client]
    /\ \A t \in Tasks :
          wire[t] # NoRequest => wire[t].auth[2] = api_key[wire[t].client]

\* C6: when the timeout elapses first, the call fails with the library's TimeoutError.
C6_TimeoutRaisesLibraryError ==
    last.resp.net = "timeout"
    => last.out.kind = "raise" /\ last.out.exc \in LibraryTimeoutErrors

\* C7: a typed call that fails validation sends no request and leaves the session as
\* it was.
C7_ValidationBeforeTransport ==
    [][(last'.out.exc = "ValidationError" /\ last.out.exc # "ValidationError")
        => /\ last'.requests = <<>>
           /\ last'.out.kind = "raise"
           /\ UNCHANGED <<_session, cs, cs_headers, created, wire, pc, frame>>]_vars

\* publish without a channel failed while a ClientSession existed and a request of
\* the other task was in flight
C7_Witness ==
    /\ last.out.exc = "ValidationError"
    /\ last.op = "publish"
    /\ created = 1
    /\ \E t \in Tasks : pc[t] = "posting" /\ t # last.who

\* C8: the timeout of an HTTP call is the caller's whenever the caller gave one, 0
\* included, and the session default otherwise.
C8_SuppliedTimeoutApplied ==
    \A t \in Tasks :
        (mode = "async" /\ wire[t] # NoRequest)
        => wire[t].timeout = IF wire[t].supplied # NoTimeout THEN wire[t].supplied
                             ELSE DEFAULT_TIMEOUT

\* C9: no ClientSession before the first make_request; at most one open; and while none
\* was closed, one ClientSession serves every request.
C9_OneClientSession ==
    /\ Cardinality(Open) <= 1
    /\ \A i \in Open : i = _session
    /\ (_session = NoSession) <=> (\A i \in 1..MaxClientSessions : cs[i] = "absent")
    /\ (\A t \in Tasks : wire[t] = NoRequest) /\ last.requests = <<>> /\ created = 0
         => _session = NoSession
    /\ (\A i \in 1..MaxClientSessions : cs[i] # "closed")
         => /\ created <= 1
            /\ \A t \in Tasks : pc[t] = "posting" => wire[t].via = 1 /\ _session = 1

\* two requests in flight at once through the one ClientSession
C9_Witness ==
    /\ \A t \in Tasks : pc[t] = "posting" /\ wire[t].via = 1
    /\ created = 1
    /\ cs[1] = "open"

\* a make_request ran since task t's close() closed ClientSession `target`
Reopened(target) == _session # target

====
